---- MODULE Spec2Model ----
(***************************************************************************)
(* Trace analysis of the PMU simulator: the two analysis scripts           *)
(*   UpfOnTelco_PdcOnCloud/CloudLogAnalysis.py   (variant "cloud")         *)
(*   UpfOnTelco_PdcOnEdge/UpfTelcoLogAnalysis.py (variant "edge")          *)
(* A trace file is a sequence of rows.  Each routine of a script is a pass *)
(* over the whole file; generate_comprehensive_statistics calls the passes *)
(* one after the other and then composes the report.                       *)
(*                                                                         *)
(* A row is a record of its tokens:                                        *)
(*   ncols   number of fields of the csv line                              *)
(*   pmu_id  the PmuID field                                               *)
(*   coords  the PmuCoordinates token, by the features the parser tests    *)
(*   path    the Path token: separator kind and the hop tokens after the   *)
(*           origin                                                        *)
(*   status  the Status token                                              *)
(* A hop token is [name, timing, t, d]: the text before the parenthesis,   *)
(* how much of "(<t>s, <d>m)" is well formed, and the two numbers (times   *)
(* in milliseconds, distances in metres).  The timing is "full" for a      *)
(* pair of numbers, "time" for "(<t>s," alone, "dotted" for a pair that    *)
(* matches the patterns with a time like "1.2.3", "none" without a pair.   *)
(* Averages are exact fractions [num, den] (the scripts use floats).       *)
(*                                                                         *)
(* The run is analyze_pmu_simulation: the map, the charts, the report and  *)
(* the csv export, each with its own passes over the trace.  exists tells  *)
(* whether the trace file is there, outputs lists the files written so     *)
(* far, signals counts the "not found" messages printed, and raised is     *)
(* TRUE once an exception has left analyze_pmu_simulation.                 *)
(***************************************************************************)
EXTENDS Integers, Sequences, FiniteSets, TLC

VARIABLES variant, file, exists, pc, pmus, hop_averages, pmu_to_gnb_avg_times, gnb_to_telco_times,
          overall_deadline_stats, accurate_stats, report, outputs, signals,
          raised

vars == <<variant, file, exists, pc, pmus, hop_averages, pmu_to_gnb_avg_times, gnb_to_telco_times,
          overall_deadline_stats, accurate_stats, report, outputs, signals,
          raised>>

\* Longest trace file explored.
MaxRows == 3

\* Python's None.
None == "None"

\* ------------------------------------------------------------------------
\* Fractions
\* ------------------------------------------------------------------------
Frac(n, d) == [num |-> n, den |-> d]

Zero == Frac(0, 1)

FracEq(a, b) == a.num * b.den = b.num * a.den

FracAdd(a, b) == Frac(a.num * b.den + b.num * a.den, a.den * b.den)

FracDiv(a, k) == Frac(a.num, a.den * k)

FracPos(a) == a.num > 0

RECURSIVE SumSeq(_)
SumSeq(s) == IF s = <<>> THEN 0 ELSE Head(s) + SumSeq(Tail(s))

RECURSIVE SumFracs(_)
SumFracs(s) == IF s = <<>> THEN Zero ELSE FracAdd(Head(s), SumFracs(Tail(s)))

\* sum(xs), not divided.
Total(xs) == Frac(SumSeq(xs), 1)

\* sum(xs) / len(xs) if xs else 0.0
Mean(xs) == IF Len(xs) > 0 THEN Frac(SumSeq(xs), Len(xs)) ELSE Zero

\* sum(fs) / len(fs) if fs else 0.0, over a list of averages
MeanOfFracs(fs) == IF Len(fs) > 0 THEN FracDiv(SumFracs(fs), Len(fs)) ELSE Zero

\* The elements of a finite set of integers, descending.
RECURSIVE SortedDescending(_)
SortedDescending(S) ==
    IF S = {} THEN <<>>
    ELSE LET m == CHOOSE x \in S : \A y \in S : x >= y
         IN <<m>> \o SortedDescending(S \ {m})

\* The elements of a finite set of integers, ascending (sorted(d.keys())).
RECURSIVE SortedSeq(_)
SortedSeq(S) ==
    IF S = {} THEN <<>>
    ELSE LET m == CHOOSE x \in S : \A y \in S : x <= y
         IN <<m>> \o SortedSeq(S \ {m})

\* ------------------------------------------------------------------------
\* Tokens
\* ------------------------------------------------------------------------
Tok(name, timing, t, d) == [name |-> name, timing |-> timing, t |-> t, d |-> d]

Path(sep, hops) == [sep |-> sep, hops |-> hops]

Coords(paren, comma, num, x, y) ==
    [paren |-> paren, comma |-> comma, num |-> num, x |-> x, y |-> y]

Row(ncols, pmu_id, coords, path, status) ==
    [ncols |-> ncols, pmu_id |-> pmu_id, coords |-> coords, path |-> path,
     status |-> status]

\* '->' in path
HasArrow(path) == path.sep # "none"

\* path.split(' -> ')[1:] : the parts after the origin; a path without the
\* spaced separator splits into the origin alone.
PathParts(path) == IF path.sep = "spaced" THEN path.hops ELSE <<>>

\* re.match(r'(GNB_\d+|GNB_Unknown)', part)
RelayNames == {"GNB_1", "GNB_2", "GNB_Unknown"}

GnbNameMatch(tok) == tok.name \in RelayNames

\* re.match(r'(GNB_\d+|GNB_Unknown)\s*\(([\d.]+)s,\s*([\d.]+)m\)', part)
GnbMatch(tok) == tok.name \in RelayNames /\ tok.timing = "full"

\* re.search(r'\(([\d.]+)s,\s*([\d.]+)m\)', part)
HopMatch(tok) == tok.timing = "full"

\* re.search(r'\(([\d.]+)s,', part)
TimeMatch(tok) == tok.timing \in {"full", "time"}

\* re.match(r'(GNB_\d+)', part)
GnbNumberedMatch(tok) == tok.name \in {"GNB_1", "GNB_2"}

\* The "(x,y)" parser: parentheses, then a comma, then two floats.
CoordsParse(c) == c.paren /\ c.comma /\ c.num

\* ------------------------------------------------------------------------
\* Dictionaries
\* ------------------------------------------------------------------------
EmptyDict == [k \in {} |-> 0]

Put(dict, key, val) ==
    [k \in DOMAIN dict \cup {key} |-> IF k = key THEN val ELSE dict[k]]

\* dict.get(key, default)
Get(dict, key, default) == IF key \in DOMAIN dict THEN dict[key] ELSE default

\* ------------------------------------------------------------------------
\* read_pmu_positions_from_csv
\* ------------------------------------------------------------------------
\* The locals of the routine before the first row.
ReadInit == [deadline_missed_stats |-> EmptyDict, hop_times |-> EmptyDict,
             pmus |-> <<>>, seen_pmu_ids |-> {}]

NewHopTimes(gnb_name) ==
    [gnb_times |-> <<>>, gnb_to_telco_times |-> <<>>, telco_to_tso_times |-> <<>>,
     gnb_distances |-> <<>>, gnb_to_telco_distances |-> <<>>,
     telco_to_tso_distances |-> <<>>, gnb_name |-> gnb_name]

\* Counters that count a missed transfer as missed only, not as a transfer.
TrackDeadlineApart(stats, pmu_id, deadline_missed) ==
    LET old == IF pmu_id \in DOMAIN stats THEN stats[pmu_id]
               ELSE [total_transfers |-> 0, deadline_missed |-> 0]
        new == [total_transfers |-> old.total_transfers + (IF deadline_missed THEN 0 ELSE 1),
                deadline_missed |-> old.deadline_missed + (IF deadline_missed THEN 1 ELSE 0)]
    IN [k \in DOMAIN stats \cup {pmu_id} |-> IF k = pmu_id THEN new ELSE stats[k]]

\* deadline_missed_stats[pmu_id]: total_transfers += 1, deadline_missed += 1
\* when the row's status is the variant's deadline-missed literal.
TrackDeadline(stats, pmu_id, deadline_missed) ==
    LET old == Get(stats, pmu_id, [total_transfers |-> 0, deadline_missed |-> 0])
    IN Put(stats, pmu_id,
           [total_transfers |-> old.total_transfers + 1,
            deadline_missed |-> old.deadline_missed + (IF deadline_missed THEN 1 ELSE 0)])

\* The hop tokens that decode, appended to the sample lists in the order
\* they decode: the first decoded to the gnb lists, the next to gnb_to_telco,
\* the next to telco_to_tso.
AppendHopsShifted(entry, parts) ==
    LET idx == SelectSeq(<<1, 2, 3>>,
                   LAMBDA j : /\ Len(parts) >= j
                              /\ parts[j].timing = "full"
                              /\ j = 1 => parts[j].name \in {"GNB_1", "GNB_2", "GNB_Unknown"})
    IN [entry EXCEPT
          !.gnb_times = IF Len(idx) >= 1 THEN Append(@, parts[idx[1]].t) ELSE @,
          !.gnb_distances = IF Len(idx) >= 1 THEN Append(@, parts[idx[1]].d) ELSE @,
          !.gnb_to_telco_times = IF Len(idx) >= 2 THEN Append(@, parts[idx[2]].t) ELSE @,
          !.gnb_to_telco_distances = IF Len(idx) >= 2 THEN Append(@, parts[idx[2]].d) ELSE @,
          !.telco_to_tso_times = IF Len(idx) >= 3 THEN Append(@, parts[idx[3]].t) ELSE @,
          !.telco_to_tso_distances = IF Len(idx) >= 3 THEN Append(@, parts[idx[3]].d) ELSE @]

\* The sample lists holding only the hop tokens of the latest path.
AppendHopsLatest(entry, parts) ==
    LET g  == Len(parts) >= 1 /\ parts[1].name \in {"GNB_1", "GNB_2", "GNB_Unknown"}
                              /\ parts[1].timing = "full"
        t  == Len(parts) >= 2 /\ parts[2].timing = "full"
        s  == Len(parts) >= 3 /\ parts[3].timing = "full"
    IN [entry EXCEPT
          !.gnb_times = IF g THEN <<parts[1].t>> ELSE @,
          !.gnb_distances = IF g THEN <<parts[1].d>> ELSE @,
          !.gnb_to_telco_times = IF t THEN <<parts[2].t>> ELSE @,
          !.gnb_to_telco_distances = IF t THEN <<parts[2].d>> ELSE @,
          !.telco_to_tso_times = IF s THEN <<parts[3].t>> ELSE @,
          !.telco_to_tso_distances = IF s THEN <<parts[3].d>> ELSE @]

\* The three hop tokens of a path appended to the device's sample lists: the
\* 1st part after the origin to the gnb lists, the 2nd to gnb_to_telco, the
\* 3rd to telco_to_tso; a part that does not match its pattern adds nothing.
AppendHops(entry, parts) ==
    LET g  == Len(parts) >= 1 /\ GnbMatch(parts[1])
        t  == Len(parts) >= 2 /\ HopMatch(parts[2])
        s  == Len(parts) >= 3 /\ HopMatch(parts[3])
    IN [entry EXCEPT
          !.gnb_times = IF g THEN Append(@, parts[1].t) ELSE @,
          !.gnb_distances = IF g THEN Append(@, parts[1].d) ELSE @,
          !.gnb_to_telco_times = IF t THEN Append(@, parts[2].t) ELSE @,
          !.gnb_to_telco_distances = IF t THEN Append(@, parts[2].d) ELSE @,
          !.telco_to_tso_times = IF s THEN Append(@, parts[3].t) ELSE @,
          !.telco_to_tso_distances = IF s THEN Append(@, parts[3].d) ELSE @]

\* gnb_name of the first part, None when it does not match.
FirstGnbName(parts) ==
    IF Len(parts) >= 1 /\ GnbMatch(parts[1]) THEN parts[1].name ELSE None

\* Cloud: the name is set only when the entry has none yet.
CloudSetGnbName(entry, gnb_name) ==
    IF gnb_name # None /\ entry.gnb_name = None
    THEN [entry EXCEPT !.gnb_name = gnb_name]
    ELSE entry

\* Edge: the name is set by every row that decodes one.
EdgeSetGnbName(entry, gnb_name) ==
    IF gnb_name # None THEN [entry EXCEPT !.gnb_name = gnb_name] ELSE entry

\* The path block of one row ("if '->' in path:").
CloudTrackPath(hop_times, pmu_id, path) ==
    IF ~HasArrow(path) THEN hop_times
    ELSE LET parts == PathParts(path)
             gnb_name == FirstGnbName(parts)
             entry == Get(hop_times, pmu_id, NewHopTimes(gnb_name))
         IN Put(hop_times, pmu_id,
                CloudSetGnbName(AppendHops(entry, parts), gnb_name))

EdgeTrackPath(hop_times, pmu_id, path) ==
    IF ~HasArrow(path) THEN hop_times
    ELSE LET parts == PathParts(path)
             gnb_name == FirstGnbName(parts)
             entry == Get(hop_times, pmu_id, NewHopTimes(gnb_name))
         IN Put(hop_times, pmu_id,
                EdgeSetGnbName(AppendHops(entry, parts), gnb_name))

\* A position block that lets every record with coordinates replace the
\* position of its device.
StorePositionOverwrite(acc, pmu_id, coords) ==
    IF CoordsParse(coords)
    THEN [acc EXCEPT
            !.pmus = Append(SelectSeq(@, LAMBDA e : e.id # pmu_id),
                            [id |-> pmu_id, x |-> coords.x, y |-> coords.y]),
            !.seen_pmu_ids = @ \cup {pmu_id}]
    ELSE acc

\* A position block that also forgets the samples of a device whose
\* coordinates do not parse.
StorePositionOrForget(acc, pmu_id, coords) ==
    IF ~CoordsParse(coords)
    THEN [acc EXCEPT !.hop_times = [k \in (DOMAIN @) \ {pmu_id} |-> @[k]]]
    ELSE IF pmu_id \notin acc.seen_pmu_ids
    THEN [acc EXCEPT
            !.pmus = Append(@, [id |-> pmu_id, x |-> coords.x, y |-> coords.y]),
            !.seen_pmu_ids = @ \cup {pmu_id}]
    ELSE acc

\* A position block that marks the device as seen whether or not its
\* coordinates parse.
StorePositionSeenAnyway(acc, pmu_id, coords) ==
    IF pmu_id \in acc.seen_pmu_ids THEN acc
    ELSE IF coords.paren /\ coords.comma /\ coords.num
    THEN [acc EXCEPT
            !.pmus = Append(@, [id |-> pmu_id, x |-> coords.x, y |-> coords.y]),
            !.seen_pmu_ids = @ \cup {pmu_id}]
    ELSE [acc EXCEPT !.seen_pmu_ids = @ \cup {pmu_id}]

\* The position block of one row: a device not yet seen whose coordinates
\* parse is appended to pmus and marked as seen.
StorePosition(acc, pmu_id, coords) ==
    IF pmu_id \notin acc.seen_pmu_ids /\ CoordsParse(coords)
    THEN [acc EXCEPT
            !.pmus = Append(@, [id |-> pmu_id, x |-> coords.x, y |-> coords.y]),
            !.seen_pmu_ids = @ \cup {pmu_id}]
    ELSE acc

\* A token whose group of digits and dots is not a number ("1.2.3") still
\* matches its pattern ([\d.]+), and float() of the group raises ValueError:
\* the gnb pattern needs a relay name before the pair, the other two search
\* the pair anywhere in the part.
FloatRaises(parts) ==
    \/ Len(parts) >= 1 /\ parts[1].name \in RelayNames /\ parts[1].timing = "dotted"
    \/ Len(parts) >= 2 /\ parts[2].timing = "dotted"
    \/ Len(parts) >= 3 /\ parts[3].timing = "dotted"

\* The row as far as it gets when float() raises in the path block: the
\* deadline counters are updated, the except clause of the row skips the
\* sample lists and the position block.
CountOnly(acc, pmu_id, deadline_missed) ==
    [acc EXCEPT !.deadline_missed_stats = TrackDeadline(@, pmu_id, deadline_missed)]

\* Cloud reads the file with pandas under the 8-column header: a 7-field
\* line (the schema without GNB_Target) puts its Status token in the HopSum
\* column, float() raises ValueError and the row is skipped.
CloudReadRow(acc, row) ==
    IF row.ncols # 8 THEN acc
    ELSE IF HasArrow(row.path) /\ FloatRaises(PathParts(row.path))
    THEN CountOnly(acc, row.pmu_id, row.status = "DEADLINE_MISSED")
    ELSE LET a1 == [acc EXCEPT
                      !.deadline_missed_stats =
                          TrackDeadline(@, row.pmu_id, row.status = "DEADLINE_MISSED"),
                      !.hop_times = CloudTrackPath(@, row.pmu_id, row.path)]
         IN StorePosition(a1, row.pmu_id, row.coords)

\* Edge reads the file with csv.reader and checks len(row) != 7.
EdgeReadRow(acc, row) ==
    IF row.ncols # 7 THEN acc
    ELSE IF HasArrow(row.path) /\ FloatRaises(PathParts(row.path))
    THEN CountOnly(acc, row.pmu_id, row.status = "L")
    ELSE LET a1 == [acc EXCEPT
                      !.deadline_missed_stats =
                          TrackDeadline(@, row.pmu_id, row.status = "L"),
                      !.hop_times = EdgeTrackPath(@, row.pmu_id, row.path)]
         IN StorePosition(a1, row.pmu_id, row.coords)

RECURSIVE CloudReadRows(_, _)
CloudReadRows(acc, rows) ==
    IF rows = <<>> THEN acc
    ELSE CloudReadRows(CloudReadRow(acc, Head(rows)), Tail(rows))

RECURSIVE EdgeReadRows(_, _)
EdgeReadRows(acc, rows) ==
    IF rows = <<>> THEN acc
    ELSE EdgeReadRows(EdgeReadRow(acc, Head(rows)), Tail(rows))

\* hop_averages[pmu_id] for every device of hop_times.
HopAverages(acc) ==
    [p \in DOMAIN acc.hop_times |->
        LET td == acc.hop_times[p]
            dm == acc.deadline_missed_stats
        IN [gnb |-> Mean(td.gnb_times),
            gnb_count |-> Len(td.gnb_times),
            gnb_distance |-> Mean(td.gnb_distances),
            gnb_to_telco |-> Mean(td.gnb_to_telco_times),
            gnb_to_telco_count |-> Len(td.gnb_to_telco_times),
            gnb_to_telco_distance |-> Mean(td.gnb_to_telco_distances),
            telco_to_tso |-> Mean(td.telco_to_tso_times),
            telco_to_tso_count |-> Len(td.telco_to_tso_times),
            telco_to_tso_distance |-> Mean(td.telco_to_tso_distances),
            gnb_name |-> td.gnb_name,
            total_transfers |-> IF p \in DOMAIN dm THEN dm[p].total_transfers ELSE 0,
            deadline_missed |-> IF p \in DOMAIN dm THEN dm[p].deadline_missed ELSE 0]]

\* sorted(pmus, key=lambda x: x['id'])
RECURSIVE InsertById(_, _)
InsertById(sorted, pmu) ==
    IF sorted = <<>> THEN <<pmu>>
    ELSE IF pmu.id < Head(sorted).id THEN <<pmu>> \o sorted
    ELSE <<Head(sorted)>> \o InsertById(Tail(sorted), pmu)

RECURSIVE SortPmus(_)
SortPmus(s) ==
    IF s = <<>> THEN <<>>
    ELSE InsertById(SortPmus(SubSeq(s, 1, Len(s) - 1)), s[Len(s)])

\* pd.read_csv under the 8-column header: a line after the first data line
\* with more fields than the header makes it raise ParserError, and the
\* routine returns nothing.
CloudDataFrameRaises(rows) == \E i \in 1..Len(rows) : rows[i].ncols > 8

cloud_read_pmu_positions_from_csv(rows) ==
    LET acc == CloudReadRows(ReadInit, rows)
    IN IF CloudDataFrameRaises(rows)
       THEN [pmus |-> <<>>, hop_averages |-> EmptyDict]
       ELSE [pmus |-> SortPmus(acc.pmus), hop_averages |-> HopAverages(acc)]

edge_read_pmu_positions_from_csv(rows) ==
    LET acc == EdgeReadRows(ReadInit, rows)
    IN [pmus |-> SortPmus(acc.pmus), hop_averages |-> HopAverages(acc)]

\* ------------------------------------------------------------------------
\* calculate_pmu_to_gnb_average_times
\* ------------------------------------------------------------------------
\* Cloud stops reading after the first processed line whose number exceeds
\* this value.
LineBreak == 2000

\* One row: the time of the first part is appended to the device's list when
\* the part holds "(<t>s,".
PmuToGnbRow(times, row, ncols) ==
    LET parts == PathParts(row.path)
    IN IF row.ncols = ncols /\ HasArrow(row.path) /\ Len(parts) >= 1
          /\ TimeMatch(parts[1])
       THEN Put(times, row.pmu_id, Append(Get(times, row.pmu_id, <<>>), parts[1].t))
       ELSE times

\* Rows are numbered from line 2; a row skipped by "continue" (wrong column
\* count) does not reach the break test.
RECURSIVE CloudPmuToGnbRows(_, _, _)
CloudPmuToGnbRows(times, rows, line_num) ==
    IF rows = <<>> THEN times
    ELSE LET row == Head(rows)
             next == PmuToGnbRow(times, row, 8)
         IN IF row.ncols = 8 /\ line_num > LineBreak THEN next
            ELSE CloudPmuToGnbRows(next, Tail(rows), line_num + 1)

RECURSIVE EdgePmuToGnbRows(_, _)
EdgePmuToGnbRows(times, rows) ==
    IF rows = <<>> THEN times
    ELSE EdgePmuToGnbRows(PmuToGnbRow(times, Head(rows), 7), Tail(rows))

\* pmu_averages: sum(times) / len(times) for every device with a sample.
PmuAverages(times) == [p \in DOMAIN times |-> Mean(times[p])]

cloud_calculate_pmu_to_gnb_average_times(rows) ==
    PmuAverages(CloudPmuToGnbRows(EmptyDict, rows, 2))

edge_calculate_pmu_to_gnb_average_times(rows) ==
    PmuAverages(EdgePmuToGnbRows(EmptyDict, rows))

\* ------------------------------------------------------------------------
\* calculate_gnb_to_telco_average_times (Edge)
\* ------------------------------------------------------------------------
\* One row: when the first part starts with a numbered relay name and the
\* second part holds "(<t>s,", the time of the second part is appended to
\* the relay's list.
GnbToTelcoRow(times, row) ==
    LET parts == PathParts(row.path)
    IN IF row.ncols = 7 /\ HasArrow(row.path) /\ Len(parts) >= 2
          /\ GnbNumberedMatch(parts[1]) /\ TimeMatch(parts[2])
       THEN Put(times, parts[1].name,
                Append(Get(times, parts[1].name, <<>>), parts[2].t))
       ELSE times

RECURSIVE GnbToTelcoRows(_, _)
GnbToTelcoRows(times, rows) ==
    IF rows = <<>> THEN times
    ELSE GnbToTelcoRows(GnbToTelcoRow(times, Head(rows)), Tail(rows))

calculate_gnb_to_telco_average_times(rows) ==
    LET times == GnbToTelcoRows(EmptyDict, rows)
    IN [g \in DOMAIN times |-> Mean(times[g])]

\* ------------------------------------------------------------------------
\* calculate_overall_deadline_missed (Cloud)
\* ------------------------------------------------------------------------
\* The column count the routine accepts.
OverallColumns == 7

OverallInit == [total_transfers |-> 0, deadline_missed |-> 0]

OverallRow(stats, row) ==
    IF row.ncols # OverallColumns THEN stats
    ELSE [total_transfers |-> stats.total_transfers + 1,
          deadline_missed |-> stats.deadline_missed
                              + (IF row.status = "DEADLINE_MISSED" THEN 1 ELSE 0)]

RECURSIVE OverallRows(_, _)
OverallRows(stats, rows) ==
    IF rows = <<>> THEN stats
    ELSE OverallRows(OverallRow(stats, Head(rows)), Tail(rows))

\* The share of the transfers that are not counted, as a percentage.
RateOfOthers(count, total) ==
    IF total > 0 THEN Frac((total - count) * 100, total) ELSE Zero

\* deadline_missed / total_transfers * 100, 0.0 when there is no transfer.
Rate(count, total) == IF total > 0 THEN Frac(count * 100, total) ELSE Zero

calculate_overall_deadline_missed(rows) ==
    LET stats == OverallRows(OverallInit, rows)
    IN [total_transfers |-> stats.total_transfers,
        deadline_missed |-> stats.deadline_missed,
        deadline_missed_rate |-> Rate(stats.deadline_missed, stats.total_transfers)]

\* ------------------------------------------------------------------------
\* calculate_accurate_transfer_stats (Cloud)
\* ------------------------------------------------------------------------
AccurateInit == [pmu_stats |-> EmptyDict, gnb_stats |-> EmptyDict]

\* The relay name of the row's first part, None when there is none.
AccurateGnbName(path) ==
    LET parts == PathParts(path)
    IN IF HasArrow(path) /\ Len(parts) >= 1 /\ GnbNameMatch(parts[1])
       THEN parts[1].name ELSE None

\* pmu_stats[pmu_id] after one counted row; the relay name is stored by
\* every row.
AccuratePmuUpdate(pmu_stats, pmu_id, gnb_name, ok) ==
    LET old == Get(pmu_stats, pmu_id, [ok |-> 0, total |-> 0, gnb_name |-> gnb_name])
    IN Put(pmu_stats, pmu_id,
           [ok |-> old.ok + (IF ok THEN 1 ELSE 0), total |-> old.total + 1,
            gnb_name |-> gnb_name])

\* Relay counters that count the on-time rows only.
AccurateGnbUpdateOnTime(gnb_stats, gnb_name, ok) ==
    LET old == Get(gnb_stats, gnb_name, [ok |-> 0, total |-> 0])
    IN Put(gnb_stats, gnb_name,
           IF ok THEN [ok |-> old.ok + 1, total |-> old.total + 1] ELSE old)

AccurateGnbUpdate(gnb_stats, gnb_name, ok) ==
    LET old == Get(gnb_stats, gnb_name, [ok |-> 0, total |-> 0])
    IN Put(gnb_stats, gnb_name,
           [ok |-> old.ok + (IF ok THEN 1 ELSE 0), total |-> old.total + 1])

AccurateRow(acc, row) ==
    LET gnb_name == AccurateGnbName(row.path)
    IN IF row.ncols # 8 \/ gnb_name = None THEN acc
       ELSE [pmu_stats |-> AccuratePmuUpdate(acc.pmu_stats, row.pmu_id, gnb_name,
                                             row.status = "OK"),
             gnb_stats |-> AccurateGnbUpdate(acc.gnb_stats, gnb_name,
                                             row.status = "OK")]

RECURSIVE AccurateRows(_, _)
AccurateRows(acc, rows) ==
    IF rows = <<>> THEN acc
    ELSE AccurateRows(AccurateRow(acc, Head(rows)), Tail(rows))

calculate_accurate_transfer_stats(rows) == AccurateRows(AccurateInit, rows)

\* ------------------------------------------------------------------------
\* generate_comprehensive_statistics: the report
\* ------------------------------------------------------------------------
\* Relay names in lexicographic order (sorted(gnb_stats.keys())).
GnbOrder == <<"GNB_1", "GNB_2", "GNB_Unknown">>

SortedNames(S) == SelectSeq(GnbOrder, LAMBDA n : n \in S)
                  \o (IF None \in S THEN <<None>> ELSE <<>>)

\* The six global per-hop-class means of Cloud divide by the number of
\* devices with a positive average; TRUE when one of the divisors is zero.
HopStatsFields ==
    {"gnb", "gnb_to_telco", "telco_to_tso",
     "gnb_distance", "gnb_to_telco_distance", "telco_to_tso_distance"}

CloudHopStatsRaises(ha) ==
    \E f \in HopStatsFields : \A p \in DOMAIN ha : ~FracPos(ha[p][f])

\* Mean over the devices with a positive average of field f.
HopClassMean(ha, f) ==
    LET ids == SortedSeq({p \in DOMAIN ha : FracPos(ha[p][f])})
    IN MeanOfFracs([i \in 1..Len(ids) |-> ha[ids[i]][f]])

CloudHopStats(ha) == [f \in HopStatsFields |-> HopClassMean(ha, f)]

\* One line per device, from the accurate statistics.
CloudPmuLines(pmu_stats, p2g) ==
    LET ids == SortedSeq(DOMAIN pmu_stats)
    IN [i \in 1..Len(ids) |->
          LET st == pmu_stats[ids[i]]
          IN [pmu_id |-> ids[i], gnb_name |-> st.gnb_name, ok |-> st.ok,
              total |-> st.total, success_rate |-> Rate(st.ok, st.total),
              avg_time_to_gnb |-> Get(p2g, ids[i], Zero)]]

\* One line per device, from hop_averages, when there are no accurate
\* statistics: on time = total - missed.
CloudPmuLinesFallback(ha, p2g) ==
    LET ids == SortedSeq(DOMAIN ha)
    IN [i \in 1..Len(ids) |->
          LET st == ha[ids[i]]
              ok == st.total_transfers - st.deadline_missed
          IN [pmu_id |-> ids[i], gnb_name |-> st.gnb_name, ok |-> ok,
              total |-> st.total_transfers,
              success_rate |-> Rate(ok, st.total_transfers),
              avg_time_to_gnb |-> Get(p2g, ids[i], Zero)]]

\* The devices counted for a relay: those whose pmu_stats entry names it.
GnbPmus(pmu_stats, gnb_name) ==
    {p \in DOMAIN pmu_stats : pmu_stats[p].gnb_name = gnb_name}

\* A gnb_times list that holds a device's average once per transfer.
RECURSIVE Repeat(_, _)
Repeat(x, n) == IF n = 0 THEN <<>> ELSE <<x>> \o Repeat(x, n - 1)

RECURSIVE WeightedTimes(_, _, _)
WeightedTimes(ids, pmu_stats, p2g) ==
    IF ids = <<>> THEN <<>>
    ELSE Repeat(p2g[Head(ids)], pmu_stats[Head(ids)].total)
         \o WeightedTimes(Tail(ids), pmu_stats, p2g)

GnbTimesWeighted(pmu_stats, p2g, gnb_name) ==
    WeightedTimes(SortedSeq({p \in DOMAIN pmu_stats :
                               /\ pmu_stats[p].gnb_name = gnb_name
                               /\ FracPos(Get(p2g, p, Zero))}),
                  pmu_stats, p2g)

\* gnb_times: the averages of these devices that are > 0.
GnbTimes(pmu_stats, p2g, gnb_name) ==
    LET ids == SortedSeq({p \in GnbPmus(pmu_stats, gnb_name) :
                             FracPos(Get(p2g, p, Zero))})
    IN [i \in 1..Len(ids) |-> p2g[ids[i]]]

CloudGnbLines(acc, p2g) ==
    LET names == SortedNames(DOMAIN acc.gnb_stats)
    IN [i \in 1..Len(names) |->
          LET st == acc.gnb_stats[names[i]]
          IN [gnb_name |-> names[i], ok |-> st.ok, total |-> st.total,
              success_rate |-> Rate(st.ok, st.total),
              pmu_count |-> Cardinality(GnbPmus(acc.pmu_stats, names[i])),
              avg_gnb_time |-> MeanOfFracs(GnbTimes(acc.pmu_stats, p2g, names[i]))]]

\* Per-relay lines from hop_averages, when there are no accurate statistics.
CloudGnbLinesFallback(ha) ==
    LET names == SortedNames({ha[p].gnb_name : p \in DOMAIN ha})
    IN [i \in 1..Len(names) |->
          LET ps == SortedSeq({p \in DOMAIN ha : ha[p].gnb_name = names[i]})
              total == SumSeq([j \in 1..Len(ps) |-> ha[ps[j]].total_transfers])
              missed == SumSeq([j \in 1..Len(ps) |-> ha[ps[j]].deadline_missed])
          IN [gnb_name |-> names[i], ok |-> total - missed, total |-> total,
              success_rate |-> Rate(total - missed, total),
              pmu_count |-> Len(ps), avg_gnb_time |-> Zero]]

NoReport == [status |-> "none"]

\* "WARNING: PMU Data CSV file not found"
MissingReport == [status |-> "missing"]

ErrorReport == [status |-> "error"]

\* The transfer section of the Cloud report.  Without hop_averages only the
\* data-size lines are written.
CloudReport(ha, p2g, overall, acc) ==
    IF DOMAIN ha = {} THEN [status |-> "ok", details |-> FALSE]
    ELSE [status |-> "ok", details |-> TRUE,
          hop_stats |-> CloudHopStats(ha),
          total_deadline_missed |-> overall.deadline_missed,
          total_all_transfers |-> overall.total_transfers,
          overall_deadline_missed_rate |-> overall.deadline_missed_rate,
          pmu_lines |-> IF DOMAIN acc.pmu_stats # {}
                        THEN CloudPmuLines(acc.pmu_stats, p2g)
                        ELSE CloudPmuLinesFallback(ha, p2g),
          gnb_lines |-> IF DOMAIN acc.gnb_stats # {}
                        THEN CloudGnbLines(acc, p2g)
                        ELSE CloudGnbLinesFallback(ha)]

\* Edge re-reads the file with pandas under the 7-column header: a line
\* after the first data line with more fields makes read_csv raise.
EdgeDataFrameRaises(rows) == \E i \in 1..Len(rows) : rows[i].ncols > 7

\* Relay of a device in the Edge report: from the first row of the device.
EdgeSampleGnbName(path) ==
    LET parts == PathParts(path)
    IN IF Len(parts) >= 1 /\ GnbNumberedMatch(parts[1])
       THEN parts[1].name ELSE "GNB_Unknown"

EdgePmuStatsFromCsv(rows) ==
    LET ids == {rows[i].pmu_id : i \in 1..Len(rows)}
    IN [p \in ids |->
          LET mine == SelectSeq(rows, LAMBDA r : r.pmu_id = p)
          IN [ok_count |-> Len(SelectSeq(mine, LAMBDA r : r.status = "S")),
              total_count |-> Len(mine),
              gnb_name |-> EdgeSampleGnbName(mine[1].path)]]

EdgePmuLines(stats) ==
    LET ids == SortedSeq(DOMAIN stats)
    IN [i \in 1..Len(ids) |->
          LET st == stats[ids[i]]
          IN [pmu_id |-> ids[i], gnb_name |-> st.gnb_name, ok |-> st.ok_count,
              total |-> st.total_count,
              success_rate |-> Rate(st.ok_count, st.total_count)]]

EdgeGnbLines(stats) ==
    LET names == SortedNames({stats[p].gnb_name : p \in DOMAIN stats})
    IN [i \in 1..Len(names) |->
          LET ps == SortedSeq({p \in DOMAIN stats : stats[p].gnb_name = names[i]})
              ok == SumSeq([j \in 1..Len(ps) |-> stats[ps[j]].ok_count])
              total == SumSeq([j \in 1..Len(ps) |-> stats[ps[j]].total_count])
          IN [gnb_name |-> names[i], ok |-> ok, total |-> total,
              success_rate |-> Rate(ok, total), pmu_count |-> Len(ps)]]

\* The Edge totals are the sums of the hop_averages entries.
EdgeTotals(ha) ==
    LET ids == SortedSeq(DOMAIN ha)
        missed == SumSeq([i \in 1..Len(ids) |-> ha[ids[i]].deadline_missed])
        total == SumSeq([i \in 1..Len(ids) |-> ha[ids[i]].total_transfers])
    IN [total_deadline_missed |-> missed, total_all_transfers |-> total,
        overall_deadline_missed_rate |-> Rate(missed, total)]

EdgeReport(ha, rows) ==
    IF EdgeDataFrameRaises(rows) THEN ErrorReport
    ELSE IF DOMAIN ha = {} THEN [status |-> "ok", details |-> FALSE]
    ELSE LET totals == EdgeTotals(ha)
             stats == EdgePmuStatsFromCsv(rows)
         IN [status |-> "ok", details |-> TRUE,
             total_deadline_missed |-> totals.total_deadline_missed,
             total_all_transfers |-> totals.total_all_transfers,
             overall_deadline_missed_rate |-> totals.overall_deadline_missed_rate,
             pmu_lines |-> EdgePmuLines(stats),
             gnb_lines |-> EdgeGnbLines(stats)]

\* ------------------------------------------------------------------------
\* Trace files
\* ------------------------------------------------------------------------
CoordsA == Coords(TRUE, TRUE, TRUE, 1, 2)

CoordsB == Coords(TRUE, TRUE, TRUE, 3, 4)

\* "(1;2)": parentheses without a comma.
CoordsBad == Coords(TRUE, FALSE, TRUE, 1, 2)

Telco == Tok("TELCO", "full", 2, 20)

Tso == Tok("TSO", "full", 3, 30)

\* "PMU -> <first> -> TELCO (2s, 20m) -> TSO (3s, 30m)"
Path3(first) == Path("spaced", <<first, Telco, Tso>>)

\* "PMU -> <first> -> TELCO (2s, 20m)"
Path2(first) == Path("spaced", <<first, Telco>>)

\* A second hop whose time is written "1.2.3".
TelcoDotted == Tok("TELCO", "dotted", 2, 20)

\* "PMU -> <first> -> TELCO (2s, 20m) -> TSO (3s, 30m) -> PDC (4s, 40m)"
Path4(first) == Path("spaced", <<first, Telco, Tso, Tok("PDC", "full", 4, 40)>>)

\* "PMU": no separator.
PathNoSep == Path("none", <<>>)

Gnb(name, t) == Tok(name, "full", t, 10 * t)

\* The rows of a trace of the Cloud simulator (8 columns, status OK or
\* DEADLINE_MISSED) and the malformed rows tried with them.
CloudRows ==
    {Row(8, p, CoordsA, Path3(Gnb(g, 1)), st) :
        p \in {1, 2}, g \in {"GNB_1", "GNB_2"}, st \in {"OK", "DEADLINE_MISSED"}}
    \cup {Row(8, p, CoordsA, Path3(Gnb("GNB_1", 3)), "OK") : p \in {1, 2}}
    \cup {Row(8, 1, CoordsB, Path3(Gnb("GNB_1", 1)), "OK"),
          Row(8, 1, CoordsBad, Path3(Gnb("GNB_1", 1)), "OK"),
          Row(8, 1, CoordsA, PathNoSep, "DEADLINE_MISSED"),
          Row(8, 2, CoordsA, Path3(Tok("???", "full", 1, 10)), "OK"),
          Row(8, 2, CoordsA, Path3(Tok("GNB_1", "none", 0, 0)), "OK"),
          Row(8, 2, CoordsA, Path3(Gnb("GNB_1", 0)), "OK"),
          Row(8, 2, CoordsA, Path3(Gnb("GNB_Unknown", 1)), "OK"),
          Row(8, 2, CoordsA, Path2(Gnb("GNB_2", 1)), "OK"),
          Row(8, 1, CoordsA, Path3(Gnb("GNB_1", 1)), "S"),
          Row(7, 1, CoordsA, Path3(Gnb("GNB_1", 1)), "DEADLINE_MISSED"),
          Row(9, 1, CoordsA, Path3(Gnb("GNB_1", 1)), "OK"),
          Row(8, 1, CoordsA, Path("spaced", <<Gnb("GNB_1", 1), TelcoDotted, Tso>>), "OK"),
          Row(8, 2, CoordsA, Path4(Gnb("GNB_2", 1)), "OK")}

\* The rows of a trace of the Edge simulator (7 columns, status S or L).
EdgeRows ==
    {Row(7, p, CoordsA, Path2(Gnb(g, 1)), st) :
        p \in {1, 2}, g \in {"GNB_1", "GNB_2"}, st \in {"S", "L"}}
    \cup {Row(7, 1, CoordsB, Path2(Gnb("GNB_1", 1)), "S"),
          Row(7, 1, CoordsBad, Path2(Gnb("GNB_1", 1)), "S"),
          Row(7, 1, CoordsA, PathNoSep, "L"),
          Row(7, 2, CoordsA, Path2(Tok("???", "full", 1, 10)), "S"),
          Row(7, 2, CoordsA, Path2(Gnb("GNB_Unknown", 1)), "S"),
          Row(7, 1, CoordsA, Path2(Gnb("GNB_1", 1)), "OK"),
          Row(8, 1, CoordsA, Path2(Gnb("GNB_1", 1)), "L"),
          Row(7, 1, CoordsA, Path("spaced", <<Gnb("GNB_1", 1), TelcoDotted>>), "S"),
          Row(7, 2, CoordsA, Path4(Gnb("GNB_2", 1)), "S")}

\* The traces of at most MaxRows rows under a header of width fields.  A
\* first data line longer than the header changes how pd.read_csv names the
\* columns of the whole table; traces that start this way are left out.
Files(rows, width) ==
    {f \in UNION {[1..n -> rows] : n \in 0..MaxRows} :
        Len(f) = 0 \/ f[1].ncols <= width}

\* ------------------------------------------------------------------------
\* The run of analyze_pmu_simulation
\* ------------------------------------------------------------------------
\* Every routine that opens the trace first tests os.path.exists, prints a
\* "not found" line and returns its empty result when the file is missing.
Missing == IF exists THEN 0 ELSE 1

Init ==
    /\ variant \in {"cloud", "edge"}
    /\ exists \in BOOLEAN
    /\ file \in (IF ~exists THEN {<<>>}
                 ELSE IF variant = "cloud" THEN Files(CloudRows, 8)
                 ELSE Files(EdgeRows, 7))
    /\ pc = "map"
    /\ pmus = <<>>
    /\ hop_averages = EmptyDict
    /\ pmu_to_gnb_avg_times = EmptyDict
    /\ gnb_to_telco_times = EmptyDict
    /\ overall_deadline_stats = calculate_overall_deadline_missed(<<>>)
    /\ accurate_stats = AccurateInit
    /\ report = NoReport
    /\ outputs = <<>>
    /\ signals = 0
    /\ raised = FALSE

\* create_simulation_map: reads the positions and saves the map.
CloudCreateMap ==
    /\ variant = "cloud" /\ pc = "map"
    /\ pmus' = cloud_read_pmu_positions_from_csv(file).pmus
    /\ signals' = signals + Missing
    /\ outputs' = Append(outputs, "map")
    /\ pc' = "performance_charts"
    /\ UNCHANGED <<variant, file, exists, hop_averages, pmu_to_gnb_avg_times, gnb_to_telco_times,
                   overall_deadline_stats, accurate_stats, report, raised>>

\* create_performance_charts (Cloud): three passes over the trace, then the
\* chart unless the accurate statistics are empty.
CloudPerformanceCharts ==
    /\ variant = "cloud" /\ pc = "performance_charts"
    /\ signals' = signals + 3 * Missing
    /\ LET acc == calculate_accurate_transfer_stats(file)
       IN outputs' = IF DOMAIN acc.pmu_stats = {} \/ DOMAIN acc.gnb_stats = {}
                     THEN outputs
                     ELSE Append(outputs, "performance_chart")
    /\ pc' = "read_positions"
    /\ UNCHANGED <<variant, file, exists, pmus, hop_averages, pmu_to_gnb_avg_times, gnb_to_telco_times,
                   overall_deadline_stats, accurate_stats, report, raised>>

\* Edge: the map reads the positions and the relay-to-hub times.
EdgeCreateMap ==
    /\ variant = "edge" /\ pc = "map"
    /\ pmus' = edge_read_pmu_positions_from_csv(file).pmus
    /\ gnb_to_telco_times' = calculate_gnb_to_telco_average_times(file)
    /\ signals' = signals + 2 * Missing
    /\ outputs' = Append(outputs, "map")
    /\ pc' = "read_positions"
    /\ UNCHANGED <<variant, file, exists, hop_averages, pmu_to_gnb_avg_times,
                   overall_deadline_stats, accurate_stats, report, raised>>

CloudReadPositions ==
    /\ variant = "cloud" /\ pc = "read_positions"
    /\ LET res == cloud_read_pmu_positions_from_csv(file)
       IN pmus' = res.pmus /\ hop_averages' = res.hop_averages
    /\ signals' = signals + Missing
    /\ pc' = "pmu_to_gnb"
    /\ UNCHANGED <<variant, file, exists, pmu_to_gnb_avg_times, gnb_to_telco_times,
                   overall_deadline_stats, accurate_stats, report, outputs, raised>>

\* Without the trace file the transfer section is the warning text.
CloudPmuToGnb ==
    /\ variant = "cloud" /\ pc = "pmu_to_gnb"
    /\ pmu_to_gnb_avg_times' = cloud_calculate_pmu_to_gnb_average_times(file)
    /\ UNCHANGED gnb_to_telco_times
    /\ signals' = signals + Missing
    /\ IF exists
       THEN report' = report /\ pc' = "hop_stats"
       ELSE report' = MissingReport /\ pc' = "write_report"
    /\ UNCHANGED <<variant, file, exists, pmus, hop_averages, overall_deadline_stats,
                   accurate_stats, outputs, raised>>

\* The data-size lines (pd.read_csv) and the global hop-class means; an
\* exception ends the transfer section with the error text.
CloudHopStatsStep ==
    /\ variant = "cloud" /\ pc = "hop_stats"
    /\ IF \/ CloudDataFrameRaises(file)
          \/ DOMAIN hop_averages # {} /\ CloudHopStatsRaises(hop_averages)
       THEN report' = ErrorReport /\ pc' = "write_report"
       ELSE report' = report /\ pc' = "overall"
    /\ UNCHANGED <<variant, file, exists, pmus, hop_averages, pmu_to_gnb_avg_times, gnb_to_telco_times,
                   overall_deadline_stats, accurate_stats, outputs, signals, raised>>

CloudOverall ==
    /\ variant = "cloud" /\ pc = "overall"
    /\ overall_deadline_stats' = calculate_overall_deadline_missed(file)
    /\ pc' = "accurate"
    /\ UNCHANGED <<variant, file, exists, pmus, hop_averages, pmu_to_gnb_avg_times, gnb_to_telco_times,
                   accurate_stats, report, outputs, signals, raised>>

CloudAccurate ==
    /\ variant = "cloud" /\ pc = "accurate"
    /\ accurate_stats' = calculate_accurate_transfer_stats(file)
    /\ pc' = "compose"
    /\ UNCHANGED <<variant, file, exists, pmus, hop_averages, pmu_to_gnb_avg_times, gnb_to_telco_times,
                   overall_deadline_stats, report, outputs, signals, raised>>

CloudCompose ==
    /\ variant = "cloud" /\ pc = "compose"
    /\ report' = CloudReport(hop_averages, pmu_to_gnb_avg_times,
                             overall_deadline_stats, accurate_stats)
    /\ pc' = "write_report"
    /\ UNCHANGED <<variant, file, exists, pmus, hop_averages, pmu_to_gnb_avg_times, gnb_to_telco_times,
                   overall_deadline_stats, accurate_stats, outputs, signals, raised>>

EdgeReadPositions ==
    /\ variant = "edge" /\ pc = "read_positions"
    /\ LET res == edge_read_pmu_positions_from_csv(file)
       IN pmus' = res.pmus /\ hop_averages' = res.hop_averages
    /\ signals' = signals + Missing
    /\ pc' = "pmu_to_gnb"
    /\ UNCHANGED <<variant, file, exists, pmu_to_gnb_avg_times, gnb_to_telco_times,
                   overall_deadline_stats, accurate_stats, report, outputs, raised>>

EdgePmuToGnb ==
    /\ variant = "edge" /\ pc = "pmu_to_gnb"
    /\ pmu_to_gnb_avg_times' = edge_calculate_pmu_to_gnb_average_times(file)
    /\ UNCHANGED gnb_to_telco_times
    /\ signals' = signals + Missing
    /\ IF exists
       THEN report' = report /\ pc' = "compose"
       ELSE report' = MissingReport /\ pc' = "write_report"
    /\ UNCHANGED <<variant, file, exists, pmus, hop_averages, overall_deadline_stats,
                   accurate_stats, outputs, raised>>

EdgeCompose ==
    /\ variant = "edge" /\ pc = "compose"
    /\ report' = EdgeReport(hop_averages, file)
    /\ pc' = "write_report"
    /\ UNCHANGED <<variant, file, exists, pmus, hop_averages, pmu_to_gnb_avg_times, gnb_to_telco_times,
                   overall_deadline_stats, accurate_stats, outputs, signals, raised>>

\* The end of generate_comprehensive_statistics: the report is saved as
\* pmu_simulation_statistics.txt whatever its transfer section holds.
WriteReport ==
    /\ pc = "write_report"
    /\ outputs' = Append(outputs, "report")
    /\ pc' = "export"
    /\ UNCHANGED <<variant, file, exists, pmus, hop_averages, pmu_to_gnb_avg_times, gnb_to_telco_times,
                   overall_deadline_stats, accurate_stats, report, signals, raised>>

\* export_statistics_to_csv (Cloud) runs the four passes again.  Its global
\* hop-class means are outside every try block: a zero divisor leaves the
\* routine as ZeroDivisionError, which analyze_pmu_simulation raises again.
CloudExport ==
    /\ variant = "cloud" /\ pc = "export"
    /\ LET ha == cloud_read_pmu_positions_from_csv(file).hop_averages
       IN IF DOMAIN ha # {} /\ CloudHopStatsRaises(ha)
          THEN raised' = TRUE /\ outputs' = outputs /\ signals' = signals + 3 * Missing
          ELSE /\ raised' = raised
               /\ outputs' = Append(outputs, "csv")
               /\ signals' = signals + 4 * Missing
    /\ pc' = "done"
    /\ UNCHANGED <<variant, file, exists, pmus, hop_averages, pmu_to_gnb_avg_times, gnb_to_telco_times,
                   overall_deadline_stats, accurate_stats, report>>

\* export_statistics_to_csv (Edge) runs the two passes again and reads the
\* trace with pd.read_csv outside every try block: a line longer than the
\* header leaves the routine as an exception.  After the csv file the
\* performance chart is saved.
EdgeExport ==
    /\ variant = "edge" /\ pc = "export"
    /\ signals' = signals + 2 * Missing
    /\ IF EdgeDataFrameRaises(file)
       THEN raised' = TRUE /\ outputs' = outputs
       ELSE /\ raised' = raised
            /\ outputs' = IF exists
                          THEN outputs \o <<"csv", "performance_chart">>
                          ELSE Append(outputs, "csv")
    /\ pc' = "done"
    /\ UNCHANGED <<variant, file, exists, pmus, hop_averages, pmu_to_gnb_avg_times, gnb_to_telco_times,
                   overall_deadline_stats, accurate_stats, report>>

Next ==
    \/ CloudCreateMap
    \/ CloudPerformanceCharts
    \/ EdgeCreateMap
    \/ CloudReadPositions
    \/ CloudPmuToGnb
    \/ CloudHopStatsStep
    \/ CloudOverall
    \/ CloudAccurate
    \/ CloudCompose
    \/ EdgeReadPositions
    \/ EdgePmuToGnb
    \/ EdgeCompose
    \/ WriteReport
    \/ CloudExport
    \/ EdgeExport

Spec == Init /\ [][Next]_vars

\* ------------------------------------------------------------------------
\* What the specification says of a trace, read off the file itself
\* ------------------------------------------------------------------------
\* The column count of the active schema.
SchemaColumns == IF variant = "cloud" THEN 8 ELSE 7

OnTimeToken == IF variant = "cloud" THEN "OK" ELSE "S"

MissedToken == IF variant = "cloud" THEN "DEADLINE_MISSED" ELSE "L"

\* The indexes of the rows that pass the column-count check.
Accepted == {i \in 1..Len(file) : file[i].ncols = SchemaColumns}

AcceptedOf(p) == {i \in Accepted : file[i].pmu_id = p}

\* The relay a row's own first hop names, None when it names none.
RelayOf(row) ==
    LET parts == PathParts(row.path)
    IN IF Len(parts) >= 1 /\ parts[1].name \in RelayNames THEN parts[1].name ELSE None

\* The same, for a first hop that also carries its "(<t>s, <d>m)" pair.
TimedRelayOf(row) ==
    LET parts == PathParts(row.path)
    IN IF Len(parts) >= 1 /\ parts[1].timing = "full" THEN RelayOf(row) ELSE None

Lowest(S) == CHOOSE i \in S : \A j \in S : i <= j

\* The relay of the first accepted record of device p that names one.
FirstRelay(p) ==
    LET named == {i \in AcceptedOf(p) : RelayOf(file[i]) # None}
    IN IF named = {} THEN None ELSE RelayOf(file[Lowest(named)])

FirstTimedRelay(p) ==
    LET named == {i \in AcceptedOf(p) : TimedRelayOf(file[i]) # None}
    IN IF named = {} THEN None ELSE TimedRelayOf(file[Lowest(named)])

Reported == pc = "done" /\ report.status = "ok" /\ report.details

\* ------------------------------------------------------------------------
\* Claims
\* ------------------------------------------------------------------------
DeviceTotalSum ==
    LET st == accurate_stats.pmu_stats
        ids == SortedSeq(DOMAIN st)
    IN SumSeq([i \in 1..Len(ids) |-> st[ids[i]].total])

\* C1: after both passes of Cloud, the per-device totals add up to the global
\* total, and both count exactly the rows that pass the column-count check.
C1_DeviceTotalsEqualGlobal ==
    (variant = "cloud" /\ pc = "compose") =>
        /\ DeviceTotalSum = overall_deadline_stats.total_transfers
        /\ overall_deadline_stats.total_transfers = Cardinality(Accepted)

\* C2: the relay kept for a device is the one of its first record that names
\* a relay, in the hop averages (which decode the whole first hop) and in the
\* accurate statistics (which decode its name).
C2_RelayIsFirstSeen ==
    /\ pc # "read_positions" =>
          \A p \in DOMAIN hop_averages :
              hop_averages[p].gnb_name = FirstTimedRelay(p)
    /\ (variant = "cloud" /\ pc = "compose") =>
          \A p \in DOMAIN accurate_stats.pmu_stats :
              accurate_stats.pmu_stats[p].gnb_name = FirstRelay(p)

\* The accepted records of device p, in file order, first one first.
\* The accepted records of device p that the read decodes to the end: no
\* conversion of a hop token stops the row before its position block.
DecodedOf(p) ==
    {i \in AcceptedOf(p) :
        ~(HasArrow(file[i].path) /\ FloatRaises(PathParts(file[i].path)))}

FirstAccepted(p) == CHOOSE i \in DecodedOf(p) : \A j \in DecodedOf(p) : i <= j

PositionsOf(p) == {i \in 1..Len(pmus) : pmus[i].id = p}

C4_GlobalCountsEveryIngestedRow ==
    (variant = "cloud" /\ pc = "accurate" /\ Accepted = 1..Len(file)) =>
        /\ overall_deadline_stats.total_transfers = Cardinality(Accepted)
        /\ overall_deadline_stats.deadline_missed =
              Cardinality({i \in Accepted : file[i].status = MissedToken})

\* C5: the reported global figures come from a pass of their own over the
\* rows (Cloud: the overall accumulator; Edge: the rows that pass the column
\* check), never from the per-device entries.
C5_GlobalIndependentOfRollup ==
    Reported =>
        LET own == IF variant = "cloud"
                   THEN [total |-> overall_deadline_stats.total_transfers,
                         missed |-> overall_deadline_stats.deadline_missed]
                   ELSE [total |-> Cardinality(Accepted),
                         missed |-> Cardinality({i \in Accepted :
                                                  file[i].status = MissedToken})]
        IN /\ report.total_all_transfers = own.total
           /\ report.total_deadline_missed = own.missed

\* C6: a device with an accepted record whose path has no separator is in
\* the per-device output of Cloud with all its accepted records counted.
C6_NoHopRecordStillCounted ==
    (variant = "cloud" /\ pc = "done" /\ report.status = "ok") =>
        \A i \in Accepted :
            ~HasArrow(file[i].path) =>
                /\ report.details
                /\ \E k \in 1..Len(report.pmu_lines) :
                      /\ report.pmu_lines[k].pmu_id = file[i].pmu_id
                      /\ report.pmu_lines[k].total =
                            Cardinality(AcceptedOf(file[i].pmu_id))

\* The sum of avg[p] over the devices of S, and its plain mean.
RECURSIVE SumOver(_, _)
SumOver(S, avg) ==
    IF S = {} THEN Zero
    ELSE LET p == CHOOSE q \in S : TRUE
         IN FracAdd(avg[p], SumOver(S \ {p}, avg))

PlainMean(S, avg) ==
    IF S = {} THEN Zero ELSE FracDiv(SumOver(S, avg), Cardinality(S))

\* The devices the report assigns to a relay, and the average
\* device-to-relay time the report gives for each device.
AssignedTo(g) ==
    {report.pmu_lines[k].pmu_id : k \in {j \in 1..Len(report.pmu_lines) :
                                           report.pmu_lines[j].gnb_name = g}}

DeviceAvg ==
    [p \in {report.pmu_lines[k].pmu_id : k \in 1..Len(report.pmu_lines)} |->
        LET k == CHOOSE j \in 1..Len(report.pmu_lines) :
                     report.pmu_lines[j].pmu_id = p
        IN report.pmu_lines[k].avg_time_to_gnb]

\* C7 as claimed: a relay's average time is the plain mean of the device
\* averages of all the devices assigned to it, one term per device.
C7_MeanOverAllAssigned ==
    (variant = "cloud" /\ Reported) =>
        \A k \in 1..Len(report.gnb_lines) :
            LET line == report.gnb_lines[k]
            IN FracEq(line.avg_gnb_time,
                      PlainMean(AssignedTo(line.gnb_name), DeviceAvg))

\* C7 as amended: a relay's average time is the plain mean of the device
\* averages of the assigned devices whose average is positive, one term per
\* such device whatever its number of samples, and 0 when there is none.
C7_MeanOverPositiveAssigned ==
    (variant = "cloud" /\ Reported) =>
        \A k \in 1..Len(report.gnb_lines) :
            LET line == report.gnb_lines[k]
                pos == {p \in AssignedTo(line.gnb_name) : FracPos(DeviceAvg[p])}
            IN FracEq(line.avg_gnb_time, PlainMean(pos, DeviceAvg))

\* C7 witness: GNB_1 has two devices, one with two samples and average 2,
\* one with one sample and average 3, and is reported at 5/2.
C7_Witness ==
    /\ variant = "cloud" /\ Reported
    /\ AssignedTo("GNB_1") = {1, 2}
    /\ {1, 2} \subseteq DOMAIN hop_averages
    /\ hop_averages[1].gnb_count = 2 /\ hop_averages[2].gnb_count = 1
    /\ FracEq(DeviceAvg[1], Frac(2, 1)) /\ FracEq(DeviceAvg[2], Frac(3, 1))
    /\ \E k \in 1..Len(report.gnb_lines) :
          /\ report.gnb_lines[k].gnb_name = "GNB_1"
          /\ FracEq(report.gnb_lines[k].avg_gnb_time, Frac(5, 2))

\* The accepted records whose own first hop names relay g.
RecordsVia(g) == {i \in Accepted : RelayOf(file[i]) = g}

\* C8: in the Cloud report a relay's line counts the accepted records whose own first hop names
\* it, those of them that are on time, and the distinct devices they come
\* from.
C8_RelayCountsItsOwnRecords ==
    (variant = "cloud" /\ Reported) =>
        \A g \in RelayNames :
            RecordsVia(g) # {} =>
                \E k \in 1..Len(report.gnb_lines) :
                    LET line == report.gnb_lines[k]
                    IN /\ line.gnb_name = g
                       /\ line.total = Cardinality(RecordsVia(g))
                       /\ line.ok = Cardinality({i \in RecordsVia(g) :
                                                   file[i].status = OnTimeToken})
                       /\ line.pmu_count =
                             Cardinality({file[i].pmu_id : i \in RecordsVia(g)})

\* The file without the rows of a wrong column count.
WellFormedRows == SelectSeq(file, LAMBDA r : r.ncols = SchemaColumns)

\* C9: a row of a wrong column count is skipped by every pass: each pass
\* returns what it returns on the file without these rows.
C9_WrongColumnCountSkipped ==
    /\ (variant = "cloud" /\ pc = "pmu_to_gnb") =>
          hop_averages = cloud_read_pmu_positions_from_csv(WellFormedRows).hop_averages
    /\ (variant = "edge" /\ pc = "pmu_to_gnb") =>
          hop_averages = edge_read_pmu_positions_from_csv(WellFormedRows).hop_averages
    /\ (variant = "cloud" /\ pc = "compose") =>
          /\ accurate_stats = calculate_accurate_transfer_stats(WellFormedRows)
          /\ overall_deadline_stats = calculate_overall_deadline_missed(WellFormedRows)

\* The accepted records of device p whose status is one of the two literals.
KnownStatusOf(p) ==
    {i \in AcceptedOf(p) : file[i].status \in {OnTimeToken, MissedToken}}

\* C10: a row whose status is neither literal of the variant is counted in
\* no total, on-time or deadline-missed count.
C10_UnknownStatusNotCounted ==
    /\ pc # "read_positions" =>
          \A p \in DOMAIN hop_averages :
              hop_averages[p].total_transfers = Cardinality(KnownStatusOf(p))
    /\ (variant = "cloud" /\ pc = "compose") =>
          \A p \in DOMAIN accurate_stats.pmu_stats :
              accurate_stats.pmu_stats[p].total <= Cardinality(KnownStatusOf(p))

\* A row without any row-local error: the schema's column count, coordinates
\* that parse, a path of the variant's hop count whose tokens all decode and
\* whose first hop names a relay, and one of the two status literals.
WellFormedRow(row) ==
    /\ row.ncols = SchemaColumns
    /\ CoordsParse(row.coords)
    /\ row.path.sep = "spaced"
    /\ Len(row.path.hops) = (IF variant = "cloud" THEN 3 ELSE 2)
    /\ \A j \in 1..Len(row.path.hops) : row.path.hops[j].timing = "full"
    /\ row.path.hops[1].name \in RelayNames
    /\ row.status \in {OnTimeToken, MissedToken}

\* C11: on a trace with rows that carry a row-local error the run ends
\* without an exception leaving it, the transfer section of the report is
\* not the error text, and every device of a well-formed row has its line in
\* the report.
C11_RowErrorsAreRecoverable ==
    (pc = "done" /\ exists /\ \E i \in 1..Len(file) : ~WellFormedRow(file[i])) =>
        /\ ~raised
        /\ report.status = "ok"
        /\ \A i \in 1..Len(file) :
              WellFormedRow(file[i]) =>
                  /\ report.details
                  /\ \E k \in 1..Len(report.pmu_lines) :
                        report.pmu_lines[k].pmu_id = file[i].pmu_id

\* C12: without the trace file the run signals "not found" once, starts no
\* other pass over the trace and writes no output file.
C12_MissingFileIsFatal ==
    ~exists => (signals <= 1 /\ outputs = <<>>)

\* The lines of the report, per device and per relay.
ReportLines ==
    {report.pmu_lines[k] : k \in 1..Len(report.pmu_lines)}
    \cup {[f \in {"ok", "total", "success_rate"} |-> report.gnb_lines[k][f]] :
             k \in 1..Len(report.gnb_lines)}

\* C13: the success rate of every device line and relay line of the report
\* is on_time / total * 100, and 0 when total is 0 or on_time is 0; in Cloud
\* on_time and total are those of the accumulators.
C13_SuccessRateIsOnTimeOverTotal ==
    Reported =>
        /\ \A line \in ReportLines :
              /\ line.total > 0 =>
                    line.success_rate.num * line.total
                        = line.ok * 100 * line.success_rate.den
              /\ (line.total = 0 \/ line.ok = 0) => line.success_rate.num = 0
              /\ line.success_rate.den > 0
        /\ variant = "cloud" =>
              /\ \A k \in 1..Len(report.pmu_lines) :
                    LET line == report.pmu_lines[k]
                        st == accurate_stats.pmu_stats[line.pmu_id]
                    IN line.ok = st.ok /\ line.total = st.total
              /\ \A k \in 1..Len(report.gnb_lines) :
                    LET line == report.gnb_lines[k]
                        st == accurate_stats.gnb_stats[line.gnb_name]
                    IN line.ok = st.ok /\ line.total = st.total

\* C13 witness: a report with a device at 0 of 1 on time (rate 0) and a relay
\* at 1 of 2 on time (rate 50).
C13_Witness ==
    /\ Reported
    /\ \E k \in 1..Len(report.pmu_lines) :
          /\ report.pmu_lines[k].ok = 0 /\ report.pmu_lines[k].total = 1
          /\ report.pmu_lines[k].success_rate.num = 0
    /\ \E k \in 1..Len(report.gnb_lines) :
          /\ report.gnb_lines[k].ok = 1 /\ report.gnb_lines[k].total = 2
          /\ FracEq(report.gnb_lines[k].success_rate, Frac(50, 1))

\* The accepted records of device p that give a sample of hop class c: the
\* c-th hop token decodes (the first with a relay name) and no token of the
\* path stops the row; and the sum of a field of that token over them.
SampleRows(p, c) ==
    {i \in AcceptedOf(p) :
        LET parts == PathParts(file[i].path)
        IN /\ Len(parts) >= c
           /\ parts[c].timing = "full"
           /\ c = 1 => parts[c].name \in RelayNames
           /\ ~FloatRaises(parts)}

RECURSIVE SampleSum(_, _, _)
SampleSum(S, c, fld) ==
    IF S = {} THEN 0
    ELSE LET i == CHOOSE j \in S : TRUE
         IN file[i].path.hops[c][fld] + SampleSum(S \ {i}, c, fld)

\* The hop classes: position in the path, and the fields of hop_averages.
HopClasses ==
    <<[time |-> "gnb", distance |-> "gnb_distance", count |-> "gnb_count"],
      [time |-> "gnb_to_telco", distance |-> "gnb_to_telco_distance",
       count |-> "gnb_to_telco_count"],
      [time |-> "telco_to_tso", distance |-> "telco_to_tso_distance",
       count |-> "telco_to_tso_count"]>>

\* avg is sum / n, and 0 when n is 0; its divisor is never 0.
IsAverage(avg, sum, n) ==
    /\ avg.den > 0
    /\ IF n = 0 THEN avg.num = 0 ELSE avg.num * n = sum * avg.den

\* C14: for every device of hop_averages and every hop class the average
\* time and the average distance are the sum of the collected samples over
\* their count, 0 without a sample, and the count is the number of samples.
C14_HopAverageIsSumOverCount ==
    \A p \in DOMAIN hop_averages :
        \A c \in 1..3 :
            LET S == SampleRows(p, c)
                ha == hop_averages[p]
            IN /\ IsAverage(ha[HopClasses[c].time], SampleSum(S, c, "t"), Cardinality(S))
               /\ IsAverage(ha[HopClasses[c].distance], SampleSum(S, c, "d"),
                            Cardinality(S))
               /\ ha[HopClasses[c].count] = Cardinality(S)

\* C14 witness: device 1 with first-hop samples 1 and 3 (average 2, distance
\* 20), device 2 in hop_averages without a first-hop sample (average 0).
C14_Witness ==
    /\ pc = "pmu_to_gnb"
    /\ {1, 2} \subseteq DOMAIN hop_averages
    /\ hop_averages[1].gnb_count = 2
    /\ FracEq(hop_averages[1].gnb, Frac(2, 1))
    /\ FracEq(hop_averages[1].gnb_distance, Frac(20, 1))
    /\ hop_averages[2].gnb_count = 0
    /\ hop_averages[2].gnb = Zero
    /\ hop_averages[2].gnb_to_telco_count = 1

\* C15: every device of an accepted record has its line in the per-device
\* output of the report, with a total equal to the number of its accepted
\* records, whatever the paths of these records hold.
C15_EveryDeviceHasItsLine ==
    Reported =>
        \A i \in Accepted :
            \E k \in 1..Len(report.pmu_lines) :
                /\ report.pmu_lines[k].pmu_id = file[i].pmu_id
                /\ report.pmu_lines[k].total = Cardinality(AcceptedOf(file[i].pmu_id))

\* ------------------------------------------------------------------------
\* The five-row trace: three on-time rows of device 1 through GNB_1 with a
\* first hop of 10 ms, two rows of device 2 through GNB_2, one on time and
\* one late, in any order.
\* ------------------------------------------------------------------------
ScenarioRow(p, g, ok) ==
    IF variant = "cloud"
    THEN Row(8, p, CoordsA, Path3(Gnb(g, 10)), IF ok THEN "OK" ELSE "DEADLINE_MISSED")
    ELSE Row(7, p, CoordsA, Path2(Gnb(g, 10)), IF ok THEN "S" ELSE "L")

ScenarioFiles ==
    LET r1 == ScenarioRow(1, "GNB_1", TRUE)
        r2 == ScenarioRow(2, "GNB_2", TRUE)
        r3 == ScenarioRow(2, "GNB_2", FALSE)
        Count(f, r) == Cardinality({i \in DOMAIN f : f[i] = r})
    IN {f \in [1..5 -> {r1, r2, r3}] :
           Count(f, r1) = 3 /\ Count(f, r2) = 1 /\ Count(f, r3) = 1}

ScenarioInit ==
    /\ variant \in {"cloud", "edge"}
    /\ exists = TRUE
    /\ file \in ScenarioFiles
    /\ pc = "map"
    /\ pmus = <<>>
    /\ hop_averages = EmptyDict
    /\ pmu_to_gnb_avg_times = EmptyDict
    /\ gnb_to_telco_times = EmptyDict
    /\ overall_deadline_stats = calculate_overall_deadline_missed(<<>>)
    /\ accurate_stats = AccurateInit
    /\ report = NoReport
    /\ outputs = <<>>
    /\ signals = 0
    /\ raised = FALSE

ScenarioSpec == ScenarioInit /\ [][Next]_vars

\* The report line of device p, of relay g.
PmuLine(p) ==
    report.pmu_lines[CHOOSE k \in 1..Len(report.pmu_lines) :
                         report.pmu_lines[k].pmu_id = p]

GnbLine(g) ==
    report.gnb_lines[CHOOSE k \in 1..Len(report.gnb_lines) :
                         report.gnb_lines[k].gnb_name = g]

\* C16: on the five-row trace the report has device 1 at 100% with an
\* average device-to-relay time of 10 ms, device 2 at 50%, a global
\* deadline-missed rate of 20% (1 of 5), and the two relays GNB_1 at 100% and
\* GNB_2 at 50%.
C16_FiveRowScenario ==
    pc = "done" =>
        /\ Reported
        /\ {report.pmu_lines[k].pmu_id : k \in 1..Len(report.pmu_lines)} = {1, 2}
        /\ FracEq(PmuLine(1).success_rate, Frac(100, 1))
        /\ FracEq(pmu_to_gnb_avg_times[1], Frac(10, 1))
        /\ FracEq(PmuLine(2).success_rate, Frac(50, 1))
        /\ report.total_deadline_missed = 1
        /\ report.total_all_transfers = 5
        /\ FracEq(report.overall_deadline_missed_rate, Frac(20, 1))
        /\ {report.gnb_lines[k].gnb_name : k \in 1..Len(report.gnb_lines)}
               = {"GNB_1", "GNB_2"}
        /\ FracEq(GnbLine("GNB_1").success_rate, Frac(100, 1))
        /\ FracEq(GnbLine("GNB_2").success_rate, Frac(50, 1))

\* The same expectation for the Edge variant alone.
C16_FiveRowScenarioEdge == variant = "edge" => C16_FiveRowScenario

\* The trace with every position token replaced by one that parses.
FixCoords(rows) == [i \in 1..Len(rows) |-> [rows[i] EXCEPT !.coords = CoordsA]]

\* What read_pmu_positions_from_csv of the variant returns on rows.
ReadOf(rows) ==
    IF variant = "cloud" THEN cloud_read_pmu_positions_from_csv(rows)
    ELSE edge_read_pmu_positions_from_csv(rows)

\* C17: a record whose position token does not parse gives the transfer
\* counts, the deadline counts and the hop-class averages what the same
\* record with a position that parses gives them, and gives no position: a
\* device is placed only from a record whose position parses.
C17_BadPositionStillCounted ==
    pc = "pmu_to_gnb" =>
        /\ hop_averages = ReadOf(FixCoords(file)).hop_averages
        /\ \A p \in DOMAIN hop_averages :
              /\ hop_averages[p].total_transfers = Cardinality(AcceptedOf(p))
              /\ hop_averages[p].deadline_missed =
                    Cardinality({i \in AcceptedOf(p) : file[i].status = MissedToken})
        /\ \A k \in 1..Len(pmus) :
              \E i \in AcceptedOf(pmus[k].id) :
                  /\ CoordsParse(file[i].coords)
                  /\ pmus[k].x = file[i].coords.x /\ pmus[k].y = file[i].coords.y

\* C17 witness: the only record of device 1 has a position that does not
\* parse; it is counted, its first hop is sampled, and device 1 is not placed.
C17_Witness ==
    /\ pc = "pmu_to_gnb"
    /\ AcceptedOf(1) # {}
    /\ \A i \in AcceptedOf(1) : ~CoordsParse(file[i].coords)
    /\ 1 \in DOMAIN hop_averages
    /\ hop_averages[1].total_transfers = Cardinality(AcceptedOf(1))
    /\ hop_averages[1].gnb_count = 1
    /\ PositionsOf(1) = {}

\* a < b for two relay identifiers as Python compares strings: "GNB_1" <
\* "GNB_2" < "GNB_Unknown", character by character.
LexLess(a, b) ==
    <<a, b>> \in {<<"GNB_1", "GNB_2">>, <<"GNB_1", "GNB_Unknown">>,
                  <<"GNB_2", "GNB_Unknown">>}

\* C18: whatever the order of the rows, the device lines of the report are in
\* strictly ascending device id, its relay lines in strictly ascending
\* lexicographic order of the relay identifier, and the positions returned by
\* the read in strictly ascending device id.
C18_OutputIsSorted ==
    /\ Reported =>
          /\ \A i, j \in 1..Len(report.pmu_lines) :
                i < j => report.pmu_lines[i].pmu_id < report.pmu_lines[j].pmu_id
          /\ \A i, j \in 1..Len(report.gnb_lines) :
                i < j => LexLess(report.gnb_lines[i].gnb_name,
                                 report.gnb_lines[j].gnb_name)
    /\ \A i, j \in 1..Len(pmus) : i < j => pmus[i].id < pmus[j].id

\* C18 witness: the trace has device 2 before device 1 and relay GNB_2 before
\* relay GNB_1, and the report has two device lines and two relay lines.
C18_Witness ==
    /\ Reported
    /\ Len(file) >= 2
    /\ file[1].pmu_id = 2 /\ file[2].pmu_id = 1
    /\ RelayOf(file[1]) = "GNB_2" /\ RelayOf(file[2]) = "GNB_1"
    /\ Len(report.pmu_lines) = 2 /\ Len(report.gnb_lines) = 2
    /\ Len(pmus) = 2

\* A pass over the trace is still to come: every step of the run before its
\* end reads the trace again, export_statistics_to_csv included.
IngestPending == pc # "done"

\* C19: in a run on an existing trace no output file (map, chart, report,
\* CSV) has been written while a pass over the trace is still to come.
C19_NoOutputBeforeLastIngest ==
    (exists /\ IngestPending) => outputs = <<>>

\* The c-th hop token of a row is good: it matches its pattern with a pair
\* of numbers (the first with a relay name).
GoodToken(row, c) ==
    LET parts == PathParts(row.path)
    IN /\ Len(parts) >= c
       /\ parts[c].timing = "full"
       /\ c = 1 => parts[c].name \in RelayNames

\* The hop tokens of a row that are not good.
BadTokens(row) == {c \in 1..Len(PathParts(row.path)) : ~GoodToken(row, c)}

\* C20: when every path of a device has at most one bad hop token, every
\* good hop token of every accepted record of the device is recorded: the
\* device is in hop_averages and the sample count of each hop class is the
\* number of its accepted records whose token of that class is good.
C20_SegmentIsolation ==
    (pc = "pmu_to_gnb" /\ ~(variant = "cloud" /\ CloudDataFrameRaises(file))) =>
        \A p \in {1, 2} :
            (\A i \in AcceptedOf(p) : Cardinality(BadTokens(file[i])) <= 1) =>
                \A c \in 1..3 :
                    LET good == {i \in AcceptedOf(p) : GoodToken(file[i], c)}
                    IN good # {} =>
                          /\ p \in DOMAIN hop_averages
                          /\ hop_averages[p][HopClasses[c].count] = Cardinality(good)

\* The trace with every hop token at a position other than c replaced by one
\* without a "(<t>s, <d>m)" pair; a token that stops its row is kept.
MaskOthers(rows, c) ==
    [i \in 1..Len(rows) |->
        [rows[i] EXCEPT !.path.hops =
            [j \in 1..Len(@) |->
                IF j = c \/ @[j].timing = "dotted" THEN @[j]
                ELSE Tok(@[j].name, "none", 0, 0)]]]

\* The trace with every path cut after its third hop token.
FirstThree(rows) ==
    [i \in 1..Len(rows) |->
        [rows[i] EXCEPT !.path.hops = SubSeq(@, 1, IF Len(@) < 3 THEN Len(@) ELSE 3)]]

\* The fields of hop class c of an entry of hop_averages.
ClassFields(entry, c) ==
    <<entry[HopClasses[c].time], entry[HopClasses[c].distance],
      entry[HopClasses[c].count]>>

\* C21: the samples of hop class c come from the c-th hop token alone: the
\* averages and the count of class c are those of the trace in which no other
\* token decodes, so a token that fails never moves a later one into another
\* class; and hop tokens after the third change nothing.
C21_HopClassIsOrdinalPosition ==
    pc = "pmu_to_gnb" =>
        /\ hop_averages = ReadOf(FirstThree(file)).hop_averages
        /\ \A c \in 1..3 :
              LET masked == ReadOf(MaskOthers(file, c)).hop_averages
              IN /\ DOMAIN masked = DOMAIN hop_averages
                 /\ \A p \in DOMAIN hop_averages :
                       ClassFields(hop_averages[p], c) = ClassFields(masked[p], c)

\* C21 witness: device 2 has a record whose first hop token fails and a
\* record with four hop tokens; its second and third classes hold both
\* records' samples (2 and 3), its first class the one decoded first hop.
C21_Witness ==
    /\ pc = "pmu_to_gnb"
    /\ \E i, j \in AcceptedOf(2) :
          /\ Len(PathParts(file[i].path)) = 4
          /\ Len(PathParts(file[j].path)) = 3
          /\ ~GoodToken(file[j], 1) /\ GoodToken(file[j], 2) /\ GoodToken(file[j], 3)
    /\ 2 \in DOMAIN hop_averages
    /\ hop_averages[2].gnb_count = 1
    /\ hop_averages[2].gnb_to_telco_count = 2
    /\ FracEq(hop_averages[2].gnb_to_telco, Frac(2, 1))
    /\ hop_averages[2].telco_to_tso_count = 2
    /\ FracEq(hop_averages[2].telco_to_tso, Frac(3, 1))

IsPrefix(s, t) == Len(s) <= Len(t) /\ SubSeq(t, 1, Len(s)) = s

\* The locals of read_pmu_positions_from_csv after the first k rows, and the
\* two dictionaries of calculate_accurate_transfer_stats after them.
ReadAccAt(k) ==
    IF variant = "cloud" THEN CloudReadRows(ReadInit, SubSeq(file, 1, k))
    ELSE EdgeReadRows(ReadInit, SubSeq(file, 1, k))

AccurateAt(k) == AccurateRows(AccurateInit, SubSeq(file, 1, k))

SampleLists ==
    {"gnb_times", "gnb_distances", "gnb_to_telco_times", "gnb_to_telco_distances",
     "telco_to_tso_times", "telco_to_tso_distances"}

\* From a to b the locals of the read only grow: every entry stays, no
\* counter decreases, every sample list and the position list are extended
\* at their end.
ReadGrows(a, b) ==
    /\ \A p \in DOMAIN a.deadline_missed_stats :
          /\ p \in DOMAIN b.deadline_missed_stats
          /\ a.deadline_missed_stats[p].total_transfers
                <= b.deadline_missed_stats[p].total_transfers
          /\ a.deadline_missed_stats[p].deadline_missed
                <= b.deadline_missed_stats[p].deadline_missed
    /\ \A p \in DOMAIN a.hop_times :
          /\ p \in DOMAIN b.hop_times
          /\ \A l \in SampleLists : IsPrefix(a.hop_times[p][l], b.hop_times[p][l])
    /\ IsPrefix(a.pmus, b.pmus)
    /\ a.seen_pmu_ids \subseteq b.seen_pmu_ids

\* From a to b no entry of a counter dictionary goes and no counter decreases.
CountersGrow(a, b) ==
    \A k \in DOMAIN a :
        k \in DOMAIN b /\ a[k].ok <= b[k].ok /\ a[k].total <= b[k].total

RelaysOfWellFormed ==
    {file[i].path.hops[1].name : i \in {j \in 1..Len(file) : WellFormedRow(file[j])}}

\* C23: a relay named by the first hop of a well-formed record, numbered or
\* the unknown sentinel, has its entry in every per-relay statistic: the
\* accurate relay counters of Cloud, the relay-to-hub averages and the relay
\* lines of the report of Edge.
C23_SentinelRelayInEveryStatistic ==
    \A g \in RelaysOfWellFormed :
        /\ (variant = "cloud" /\ pc = "compose") => g \in DOMAIN accurate_stats.gnb_stats
        /\ (variant = "edge" /\ pc # "map") => g \in DOMAIN gnb_to_telco_times
        /\ (variant = "edge" /\ Reported) =>
              \E k \in 1..Len(report.gnb_lines) : report.gnb_lines[k].gnb_name = g

\* No line of the trace has more fields than the header of its variant.
NoLongLine ==
    \A i \in 1..Len(file) : file[i].ncols <= (IF variant = "cloud" THEN 8 ELSE 7)

\* C24: on an existing trace without over-long lines the run ends with the
\* transfer section of the report composed and the CSV written, whatever
\* hop classes the devices have samples or positive averages for.
C24_GlobalHopAveragesNeverDivideByZero ==
    (pc = "done" /\ exists /\ NoLongLine) =>
        /\ report.status = "ok"
        /\ ~raised
        /\ \E k \in 1..Len(outputs) : outputs[k] = "csv"

\* C25: for every device the average device-to-relay time returned by
\* calculate_pmu_to_gnb_average_times is the 'gnb' average returned by
\* read_pmu_positions_from_csv on the same trace (0 for a device either
\* routine has no entry for).
C25_PmuToGnbAverageAgreesWithRead ==
    (exists /\ pc = "write_report") =>
        \A p \in {1, 2} :
            FracEq(Get(pmu_to_gnb_avg_times, p, Zero),
                   IF p \in DOMAIN hop_averages THEN hop_averages[p].gnb ELSE Zero)

\* C26: in Cloud every device known to one of the two routines is known to
\* both, with the same total, and its accurate on-time count is the read's
\* total minus the read's deadline-missed count.
C26_AccurateCountsAgreeWithRead ==
    (variant = "cloud" /\ pc = "compose") =>
        /\ DOMAIN accurate_stats.pmu_stats = DOMAIN hop_averages
        /\ \A p \in DOMAIN accurate_stats.pmu_stats \cap DOMAIN hop_averages :
              /\ accurate_stats.pmu_stats[p].total = hop_averages[p].total_transfers
              /\ accurate_stats.pmu_stats[p].ok =
                    hop_averages[p].total_transfers - hop_averages[p].deadline_missed

\* The global counters of calculate_overall_deadline_missed after k rows.
OverallAt(k) == OverallRows(OverallInit, SubSeq(file, 1, k))

\* A rate between 0 and 100.
IsPercentage(r) == r.den > 0 /\ 0 <= r.num /\ r.num <= 100 * r.den

\* C27: after every row of the trace the deadline-missed count of every
\* device is at most its transfer count, and in Cloud so is the global one,
\* and the on-time count of every device and relay of the accurate counters
\* is at most its total; every rate of the report lies between 0 and 100.
C27_CountsBoundedByTotals ==
    /\ pc = "pmu_to_gnb" =>
          \A k \in 0..Len(file) :
              /\ \A p \in DOMAIN ReadAccAt(k).deadline_missed_stats :
                    LET st == ReadAccAt(k).deadline_missed_stats[p]
                    IN 0 <= st.deadline_missed /\ st.deadline_missed <= st.total_transfers
              /\ variant = "cloud" =>
                    /\ OverallAt(k).deadline_missed <= OverallAt(k).total_transfers
                    /\ \A p \in DOMAIN AccurateAt(k).pmu_stats :
                          AccurateAt(k).pmu_stats[p].ok <= AccurateAt(k).pmu_stats[p].total
                    /\ \A g \in DOMAIN AccurateAt(k).gnb_stats :
                          AccurateAt(k).gnb_stats[g].ok <= AccurateAt(k).gnb_stats[g].total
    /\ \A p \in DOMAIN hop_averages :
          hop_averages[p].deadline_missed <= hop_averages[p].total_transfers
    /\ Reported =>
          /\ \A line \in ReportLines : IsPercentage(line.success_rate)
          /\ variant = "cloud" => IsPercentage(report.overall_deadline_missed_rate)

\* C27 witness: the first record of device 1 missed its deadline (1 of 1),
\* its second did not (1 of 2).
C27_Witness ==
    /\ pc = "pmu_to_gnb" /\ Len(file) >= 2
    /\ 1 \in DOMAIN ReadAccAt(1).deadline_missed_stats
    /\ ReadAccAt(1).deadline_missed_stats[1] = [total_transfers |-> 1, deadline_missed |-> 1]
    /\ ReadAccAt(2).deadline_missed_stats[1] = [total_transfers |-> 2, deadline_missed |-> 1]
    /\ 1 \in DOMAIN hop_averages
    /\ hop_averages[1].deadline_missed = 1 /\ hop_averages[1].total_transfers = 2

\* The sum of field f over the entries of a counter dictionary.
RECURSIVE SumField(_, _)
SumField(dict, f) ==
    IF DOMAIN dict = {} THEN 0
    ELSE LET k == CHOOSE x \in DOMAIN dict : TRUE
         IN dict[k][f] + SumField([x \in (DOMAIN dict) \ {k} |-> dict[x]], f)

\* The sum of field f over the lines of a report section.
LineSum(lines, f) == SumSeq([k \in 1..Len(lines) |-> lines[k][f]])

\* C28: after every row of the trace the relay totals of the accurate
\* counters add up to the device totals and the relay on-time counts to the
\* device on-time counts; in the Edge report, whose relay counters are built
\* from the device counters, the relay lines add up to the device lines.
C28_RelaySumsEqualDeviceSums ==
    /\ (variant = "cloud" /\ pc = "compose") =>
          /\ \A k \in 0..Len(file) :
                /\ SumField(AccurateAt(k).gnb_stats, "total")
                      = SumField(AccurateAt(k).pmu_stats, "total")
                /\ SumField(AccurateAt(k).gnb_stats, "ok")
                      = SumField(AccurateAt(k).pmu_stats, "ok")
          /\ SumField(accurate_stats.gnb_stats, "total")
                = SumField(accurate_stats.pmu_stats, "total")
          /\ SumField(accurate_stats.gnb_stats, "ok")
                = SumField(accurate_stats.pmu_stats, "ok")
    /\ (variant = "edge" /\ Reported) =>
          /\ LineSum(report.gnb_lines, "total") = LineSum(report.pmu_lines, "total")
          /\ LineSum(report.gnb_lines, "ok") = LineSum(report.pmu_lines, "ok")

\* C28 witness: device 1 has a record through GNB_1 and a missed one through
\* GNB_2: one device total of 2, two relay totals of 1.
C28_Witness ==
    /\ variant = "cloud" /\ pc = "compose"
    /\ DOMAIN accurate_stats.pmu_stats = {1}
    /\ accurate_stats.pmu_stats[1].total = 2 /\ accurate_stats.pmu_stats[1].ok = 1
    /\ DOMAIN accurate_stats.gnb_stats = {"GNB_1", "GNB_2"}
    /\ accurate_stats.gnb_stats["GNB_1"] = [ok |-> 1, total |-> 1]
    /\ accurate_stats.gnb_stats["GNB_2"] = [ok |-> 0, total |-> 1]

\* The decoded records of device p whose coordinates parse.
PlacingOf(p) == {i \in DecodedOf(p) : CoordsParse(file[i].coords)}

====
